---- MODULE Spec2Model ----
(***************************************************************************)
(* The post controller of the blog backend (controllers/postController:   *)
(* addPost, updatePost, deletePost) and the routes that expose it, as a   *)
(* state machine over the post collection.  Every `await` of a handler is *)
(* a point where other requests may run, so a handler is one action per   *)
(* database call, each including the synchronous code that follows it.    *)
(***************************************************************************)
EXTENDS Naturals, Sequences, FiniteSets, Bags, TLC

\* Bounds of the model.
MaxPosts == 1      \* posts ever created; ids are assigned once and never reused
MaxRequests == 3   \* requests received in one run; all may be in flight at once

(***************************************************************************)
(* JavaScript values.  A value is a record of its kind and a token for    *)
(* its content, so that all values are comparable.                        *)
(***************************************************************************)
Undef == [k |-> "undefined", v |-> ""]
Str(s) == [k |-> "string", v |-> s]
Obj(s) == [k |-> "object", v |-> s]
Arr(s) == [k |-> "array", v |-> s]
Num(s) == [k |-> "number", v |-> s]
Bool(b) == [k |-> "boolean", v |-> IF b THEN "true" ELSE "false"]

\* if (x): undefined, "", false and 0 are falsy; objects and arrays (also empty) are truthy.
Truthy(x) ==
    /\ x.k # "undefined"
    /\ ~(x.k = "string" /\ x.v = "")
    /\ ~(x.k = "boolean" /\ x.v = "false")
    /\ ~(x.k = "number" /\ x.v = "0")

\* typeof x
TypeOf(x) == IF x.k = "array" THEN "object" ELSE x.k

\* JSON.parse(text): the parsed value, or ok = FALSE where it throws.
JsonTagsG1 == "[\"g1\"]"
JsonTagsG2 == "[\"g2\"]"
JsonSeoA == "{\"metaTitle\":\"a\"}"
JsonSeoB == "{\"metaTitle\":\"b\"}"
JsonFive == "5"
JSONParse(text) ==
    CASE text = JsonTagsG1 -> [ok |-> TRUE, val |-> Arr("g1")]
      [] text = JsonTagsG2 -> [ok |-> TRUE, val |-> Arr("g2")]
      [] text = JsonSeoA -> [ok |-> TRUE, val |-> Obj("a")]
      [] text = JsonSeoB -> [ok |-> TRUE, val |-> Obj("b")]
      [] text = JsonFive -> [ok |-> TRUE, val |-> Num("5")]
      [] OTHER -> [ok |-> FALSE, val |-> Undef]

\* published === "true" || published === true
PublishedFlag(published) == Bool(published = Str("true") \/ published = Bool(TRUE))

(***************************************************************************)
(* Callers.  req.user is attached by the authentication middleware; a      *)
(* request that did not pass through it has no user.                       *)
(***************************************************************************)
NoUser == [id |-> "", role |-> ""]
Users ==
    { [id |-> "u1", role |-> "author"],
      [id |-> "adm", role |-> "admin"] }
Callers == {NoUser} \cup Users
FallbackAuthor == "68ae1145a564344c2e6e03fb"

\* req.user?.id ? req.user.id : "68ae1145a564344c2e6e03fb"
AuthorOf(user) == IF user # NoUser /\ user.id # "" THEN user.id ELSE FallbackAuthor

\* req.user.role !== "admin" && existing.author.toString() !== req.user.id
ForbiddenInverted(user, doc) == user.role # "admin" /\ doc.author = user.id
Forbidden(user, doc) == user.role # "admin" /\ doc.author # user.id

(***************************************************************************)
(* Requests.  A body holds the fields the handlers destructure from       *)
(* req.body, and `file` is req.file?.path.                                 *)
(***************************************************************************)
Fields == {"title", "slug", "content", "category", "tags", "seo", "published", "file"}

EmptyBody == [f \in Fields |-> Undef]

\* A complete body for a create.
ValidBody ==
    [title |-> Str("Hello World"), slug |-> Undef, content |-> Str("c1"),
     category |-> Str("cat1"), tags |-> Arr("g1"), seo |-> Obj("a"),
     published |-> Bool(TRUE), file |-> Undef]

\* A body that supplies every field, with values other than ValidBody's.
FullBody ==
    [title |-> Str("News"), slug |-> Str("my-slug"), content |-> Str("c2"),
     category |-> Str("cat2"), tags |-> Str(JsonTagsG2), seo |-> Str(JsonSeoB),
     published |-> Str("false"), file |-> Str("img2")]

\* The other values a field takes in a create.
CreateValues ==
    [title |-> {Undef, Str("")},
     slug |-> {},
     content |-> {Undef},
     category |-> {Undef, Str("not-an-id")},
     tags |-> {Str(""), Str("[bad"), Str(JsonTagsG1)},
     seo |-> {Undef, Str(""), Str("{bad"), Str(JsonSeoA), Str(JsonFive)},
     published |-> {Str("true")},
     file |-> {}]

\* The other values a field takes in an update.
UpdateValues ==
    [title |-> {Undef, Str("")},
     slug |-> {},
     content |-> {},
     category |-> {Str("not-an-id")},
     tags |-> {Str(""), Str("[bad")},
     seo |-> {Str(""), Str("{bad")},
     published |-> {},
     file |-> {}]

\* base, and base with one field replaced by another of its values.
VaryOne(base, values) ==
    {base} \cup UNION {{[base EXCEPT ![f] = x] : x \in values[f]} : f \in Fields}

CreateBodies == VaryOne(ValidBody, CreateValues)
UpdateBodies == VaryOne(FullBody, UpdateValues) \cup {EmptyBody}

\* mongoose.isValidObjectId(id): id 0 stands for the strings that are no ObjectId.
IsValidObjectId(id) == id >= 1
PathIds == 0..MaxPosts

(***************************************************************************)
(* The Post document and the collection.                                   *)
(***************************************************************************)
\* utils/slugfy generateSlug: lowercased, whitespace replaced.
GenerateSlug(title) ==
    CASE title = Str("Hello World") -> Str("hello-world")
      [] title = Str("News") -> Str("news")
      [] OTHER -> Str("")

\* The Post schema's validation on create and save: the required paths are
\* there, the strings are not empty, category casts to an ObjectId, and seo
\* is free-form.
IsObjectIdRef(x) == x \in {Str("cat1"), Str("cat2")}
SchemaAccepts(doc) ==
    /\ Truthy(doc.title) /\ Truthy(doc.content)
    /\ IsObjectIdRef(doc.category)
    /\ doc.seo # Undef
    /\ doc.author # ""

\* slug ? slug.toString() : generateSlug(title)
FinalSlug(body) == IF Truthy(body.slug) THEN Str(body.slug.v) ELSE GenerateSlug(body.title)

\* !title || !content || !category || !seo
MissingRequired(body) ==
    ~Truthy(body.title) \/ ~Truthy(body.content) \/ ~Truthy(body.category) \/ ~Truthy(body.seo)

\* addPost's parse of tags: [] unless given, JSON.parse of a string.
CreateTags(tags) ==
    IF ~Truthy(tags) THEN [ok |-> TRUE, val |-> Arr("")]
    ELSE IF TypeOf(tags) = "string" THEN JSONParse(tags.v)
    ELSE [ok |-> TRUE, val |-> tags]

\* addPost's parse of seo.
CreateSeo(seo) ==
    IF TypeOf(seo) = "string" THEN JSONParse(seo.v) ELSE [ok |-> TRUE, val |-> seo]

\* The object handed to Post.create.
NewDoc(user, body) ==
    [title |-> body.title, slug |-> FinalSlug(body), content |-> body.content,
     author |-> AuthorOf(user), category |-> body.category,
     tags |-> CreateTags(body.tags).val, seo |-> CreateSeo(body.seo).val,
     featuredImage |-> body.file, published |-> PublishedFlag(body.published)]

\* addPost up to Post.create: the error response, or status 0 to go on.
AddPostOutcomeStatusUnset(user, body) ==
    IF MissingRequired(body)
    THEN [status |-> 200, error |-> "title, content, category and seo are required"]
    ELSE IF ~CreateTags(body.tags).ok THEN [status |-> 400, error |-> "Invalid tags JSON"]
    ELSE IF ~CreateSeo(body.seo).ok THEN [status |-> 400, error |-> "Invalid SEO JSON"]
    ELSE IF ~SchemaAccepts(NewDoc(user, body)) THEN [status |-> 400, error |-> "Invalid data"]
    ELSE [status |-> 0, error |-> ""]
AddPostOutcome(user, body) ==
    IF MissingRequired(body)
    THEN [status |-> 400, error |-> "title, content, category and seo are required"]
    ELSE IF ~CreateTags(body.tags).ok THEN [status |-> 400, error |-> "Invalid tags JSON"]
    ELSE IF ~CreateSeo(body.seo).ok THEN [status |-> 400, error |-> "Invalid SEO JSON"]
    ELSE IF ~SchemaAccepts(NewDoc(user, body)) THEN [status |-> 400, error |-> "Invalid data"]
    ELSE [status |-> 0, error |-> ""]

\* updatePost's assignments to `existing`: the value a path is set to, or Keep.
Keep == [k |-> "keep", v |-> ""]
ParsedOrSelf(x) == IF TypeOf(x) = "string" THEN JSONParse(x.v) ELSE [ok |-> TRUE, val |-> x]
Assignments(body) ==
    [title |-> IF Truthy(body.title) THEN body.title ELSE Keep,
     slug |-> IF Truthy(body.slug) THEN body.slug ELSE Keep,
     content |-> IF Truthy(body.content) THEN body.content ELSE Keep,
     category |-> IF Truthy(body.category) THEN body.category ELSE Keep,
     tags |-> IF Truthy(body.tags) THEN ParsedOrSelf(body.tags).val ELSE Keep,
     seo |-> IF Truthy(body.seo) THEN ParsedOrSelf(body.seo).val ELSE Keep,
     published |-> IF body.published # Undef THEN PublishedFlag(body.published) ELSE Keep,
     featuredImage |-> IF Truthy(body.file) THEN body.file ELSE Keep]

\* existing.save(): the assigned paths are written, the others are left as stored.
SetPath(old, new) == IF new = Keep THEN old ELSE new
ApplyResettingAuthor(doc, asg) ==
    [title |-> SetPath(doc.title, asg.title), slug |-> SetPath(doc.slug, asg.slug),
     content |-> SetPath(doc.content, asg.content), author |-> FallbackAuthor,
     category |-> SetPath(doc.category, asg.category), tags |-> SetPath(doc.tags, asg.tags),
     seo |-> SetPath(doc.seo, asg.seo),
     featuredImage |-> SetPath(doc.featuredImage, asg.featuredImage),
     published |-> SetPath(doc.published, asg.published)]
Apply(doc, asg) ==
    [title |-> SetPath(doc.title, asg.title), slug |-> SetPath(doc.slug, asg.slug),
     content |-> SetPath(doc.content, asg.content), author |-> doc.author,
     category |-> SetPath(doc.category, asg.category), tags |-> SetPath(doc.tags, asg.tags),
     seo |-> SetPath(doc.seo, asg.seo),
     featuredImage |-> SetPath(doc.featuredImage, asg.featuredImage),
     published |-> SetPath(doc.published, asg.published)]

\* updatePost and deletePost up to their write: the error response, or status 0.
GateWithoutLogin(user, id, store) ==
    IF ~IsValidObjectId(id) THEN [status |-> 400, error |-> "Invalid ID"]
    ELSE IF id \notin DOMAIN store THEN [status |-> 404, error |-> "Post not found"]
    ELSE IF Forbidden(user, store[id]) THEN [status |-> 403, error |-> "Forbidden"]
    ELSE [status |-> 0, error |-> ""]
Gate(user, id, store) ==
    IF ~IsValidObjectId(id) THEN [status |-> 400, error |-> "Invalid ID"]
    ELSE IF id \notin DOMAIN store THEN [status |-> 404, error |-> "Post not found"]
    ELSE IF user = NoUser THEN [status |-> 401, error |-> "Unauthorized"]
    ELSE IF Forbidden(user, store[id]) THEN [status |-> 403, error |-> "Forbidden"]
    ELSE [status |-> 0, error |-> ""]

UpdateOutcome(user, id, body, store) ==
    IF Gate(user, id, store).status # 0 THEN Gate(user, id, store)
    ELSE IF Truthy(body.tags) /\ ~ParsedOrSelf(body.tags).ok
    THEN [status |-> 400, error |-> "Invalid tags JSON"]
    ELSE IF Truthy(body.seo) /\ ~ParsedOrSelf(body.seo).ok
    THEN [status |-> 400, error |-> "Invalid SEO JSON"]
    ELSE [status |-> 0, error |-> ""]

\* Post.findByIdAndDelete(id)
RemoveDocKeeping(store, id) == store
RemoveDoc(store, id) == [i \in DOMAIN store \ {id} |-> store[i]]

\* Post.findById(id): the document in a one-element sequence, or <<>> for null.
FindById(store, id) == IF id \in DOMAIN store THEN <<store[id]>> ELSE <<>>

(***************************************************************************)
(* State.                                                                  *)
(***************************************************************************)
VARIABLES
    posts,       \* the post collection: id -> document
    nextId,      \* the id the store assigns to the next document
    reqs,        \* the bag of requests waiting on a database call
    issued,      \* requests received so far
    last,        \* the response sent last
    origAuthor,  \* history: id -> the author the stored post was created with
    deletedOk    \* history: the ids whose delete was answered "Post deleted"

vars == <<posts, nextId, reqs, issued, last, origAuthor, deletedOk>>

NoDocs == [i \in {} |-> EmptyBody]

\* A request between two database calls: what the rest of its handler uses.
Pending(op, pc, id, body) == [op |-> op, pc |-> pc, id |-> id, body |-> body]
InFlight == BagToSet(reqs)
Put(r) == reqs (+) SetToBag({r})
Take(r) == reqs (-) SetToBag({r})

\* A request is received while the bounds of the model allow one more.
CanReceive == issued < MaxRequests

Response(op, status, error, id, doc) ==
    [op |-> op, status |-> status, error |-> error, id |-> id, doc |-> doc]

Init ==
    /\ posts = NoDocs
    /\ nextId = 1
    /\ reqs = EmptyBag
    /\ issued = 0
    /\ last = Response("none", 0, "", 0, <<>>)
    /\ origAuthor = [i \in {} |-> ""]
    /\ deletedOk = {}

(***************************************************************************)
(* POST /api/posts: addPost.                                               *)
(***************************************************************************)
\* Validation, parsing and Post.create.
AddPost(user, body) ==
    /\ CanReceive
    /\ nextId <= MaxPosts
    /\ issued' = issued + 1
    /\ LET out == AddPostOutcome(user, body) IN
       IF out.status # 0
       THEN /\ last' = Response("create", out.status, out.error, 0, <<>>)
            /\ UNCHANGED <<posts, nextId, reqs, origAuthor>>
       ELSE /\ posts' = [i \in DOMAIN posts \cup {nextId} |->
                           IF i = nextId THEN NewDoc(user, body) ELSE posts[i]]
            /\ origAuthor' = [i \in DOMAIN origAuthor \cup {nextId} |->
                                IF i = nextId THEN NewDoc(user, body).author
                                ELSE origAuthor[i]]
            /\ nextId' = nextId + 1
            /\ reqs' = Put(Pending("create", "reread", nextId, EmptyBody))
            /\ UNCHANGED last
    /\ UNCHANGED deletedOk

\* Post.findById(postDoc._id) and the 201.
AddPostReread(r) ==
    /\ r.op = "create" /\ r.pc = "reread"
    /\ last' = Response("create", 201, "", r.id, FindById(posts, r.id))
    /\ reqs' = Take(r)
    /\ UNCHANGED <<posts, nextId, issued, origAuthor, deletedOk>>

(***************************************************************************)
(* PUT /api/posts/:id: updatePost.                                         *)
(***************************************************************************)
\* Post.findById(id), the checks, and the assignments to `existing`.
UpdatePost(user, id, body) ==
    /\ CanReceive
    /\ issued' = issued + 1
    /\ LET out == UpdateOutcome(user, id, body, posts) IN
       IF out.status # 0
       THEN /\ last' = Response("update", out.status, out.error, id, <<>>)
            /\ UNCHANGED reqs
       ELSE /\ reqs' = Put(Pending("update", "save", id, body))
            /\ UNCHANGED last
    /\ UNCHANGED <<posts, nextId, origAuthor, deletedOk>>

\* existing.save(): it throws, and the handler answers 400, when validation
\* fails or the document is no longer in the collection.
UpdateSave(r) ==
    /\ r.op = "update" /\ r.pc = "save"
    /\ IF r.id \in DOMAIN posts /\ SchemaAccepts(Apply(posts[r.id], Assignments(r.body)))
       THEN /\ posts' = [posts EXCEPT ![r.id] = Apply(posts[r.id], Assignments(r.body))]
            /\ reqs' = Take(r) (+) SetToBag({[r EXCEPT !.pc = "reread"]})
            /\ UNCHANGED last
       ELSE /\ last' = Response("update", 400, "Invalid update request", r.id, <<>>)
            /\ reqs' = Take(r)
            /\ UNCHANGED posts
    /\ UNCHANGED <<nextId, issued, origAuthor, deletedOk>>

\* Post.findById(existing._id) and res.json(populated).
UpdateReread(r) ==
    /\ r.op = "update" /\ r.pc = "reread"
    /\ last' = Response("update", 200, "", r.id, FindById(posts, r.id))
    /\ reqs' = Take(r)
    /\ UNCHANGED <<posts, nextId, issued, origAuthor, deletedOk>>

(***************************************************************************)
(* DELETE /api/posts/:id: deletePost.                                      *)
(***************************************************************************)
\* Post.findById(id) and the checks.
DeletePost(user, id) ==
    /\ CanReceive
    /\ issued' = issued + 1
    /\ LET out == Gate(user, id, posts) IN
       IF out.status # 0
       THEN /\ last' = Response("delete", out.status, out.error, id, <<>>)
            /\ UNCHANGED reqs
       ELSE /\ reqs' = Put(Pending("delete", "remove", id, EmptyBody))
            /\ UNCHANGED last
    /\ UNCHANGED <<posts, nextId, origAuthor, deletedOk>>

\* Post.findByIdAndDelete(id) and the confirmation.
DeleteRemove(r) ==
    /\ r.op = "delete" /\ r.pc = "remove"
    /\ posts' = RemoveDoc(posts, r.id)
    /\ last' = Response("delete", 200, "Post deleted", r.id, <<>>)
    /\ deletedOk' = deletedOk \cup {r.id}
    /\ origAuthor' = RemoveDoc(origAuthor, r.id)
    /\ reqs' = Take(r)
    /\ UNCHANGED <<nextId, issued>>

(***************************************************************************)
(* The handlers called with any caller, as the controller is written.      *)
(***************************************************************************)
Next ==
    \/ \E user \in Callers, body \in CreateBodies : AddPost(user, body)
    \/ \E r \in InFlight : AddPostReread(r)
    \/ \E user \in Callers, id \in PathIds, body \in UpdateBodies : UpdatePost(user, id, body)
    \/ \E r \in InFlight : UpdateSave(r)
    \/ \E r \in InFlight : UpdateReread(r)
    \/ \E user \in Callers, id \in PathIds : DeletePost(user, id)
    \/ \E r \in InFlight : DeleteRemove(r)

Spec == Init /\ [][Next]_vars

(***************************************************************************)
(* The routes as wired in routes/postRoutes: POST, PUT and DELETE are      *)
(* registered without authMiddleware and without upload.single, so no      *)
(* request carries a user or a file.  No handler then gets past its first  *)
(* database call except addPost.                                           *)
(***************************************************************************)
NoFile(bodies) == {[b EXCEPT !.file = Undef] : b \in bodies}

WiredNext ==
    \/ \E body \in NoFile(CreateBodies) : AddPost(NoUser, body)
    \/ \E r \in InFlight : AddPostReread(r)
    \/ \E id \in PathIds, body \in NoFile(UpdateBodies) : UpdatePost(NoUser, id, body)
    \/ \E id \in PathIds : DeletePost(NoUser, id)

SpecWired == Init /\ [][WiredNext]_vars

(***************************************************************************)
(* Properties.                                                             *)
(***************************************************************************)
\* A request that was answered at once: a response was sent and nothing waits.
Answered(op, status, id) ==
    /\ last'.op = op /\ last'.status = status /\ last'.id = id
    /\ reqs' = reqs

NotOwnerNorAdmin(user, doc) == user.role # "admin" /\ user.id # doc.author

\* C1: an update or delete of an existing post by an authenticated caller who is
\* neither its author nor an admin is answered 403 and leaves the collection as
\* it was.
C1_ForbiddenLeavesPost ==
    [][\A id \in DOMAIN posts : \A user \in Users :
          NotOwnerNorAdmin(user, posts[id]) =>
             /\ DeletePost(user, id) => Answered("delete", 403, id) /\ posts' = posts
             /\ \A body \in UpdateBodies :
                   UpdatePost(user, id, body) => Answered("update", 403, id) /\ posts' = posts
      ]_vars

C1_Witness ==
    /\ last.status = 403
    /\ last.id \in DOMAIN posts
    /\ posts[last.id].author = "adm"

\* C2: a create without title, content, category or seo is answered 400 and
\* leaves the collection as it was, whatever the other fields are.
RequiredFields == {"title", "content", "category", "seo"}
LacksRequired(body) == \E f \in RequiredFields : body[f] = Undef
BodiesLackingRequired == {body \in CreateBodies : LacksRequired(body)}

C2_CreateNeedsRequired ==
    [][\A user \in Callers : \A body \in BodiesLackingRequired :
          AddPost(user, body) => Answered("create", 400, 0) /\ posts' = posts
      ]_vars

C2_Witness ==
    /\ last.op = "create" /\ last.status = 400
    /\ last.error = "title, content, category and seo are required"

\* The value a request supplies for a path of the document: tags and seo given
\* as JSON text stand for the value the text denotes, published for its flag.
Supplied(f, x) ==
    IF f \in {"tags", "seo"} /\ x.k = "string" /\ JSONParse(x.v).ok THEN JSONParse(x.v).val
    ELSE IF f = "published" THEN PublishedFlag(x)
    ELSE x
PathOf(f) == IF f = "file" THEN "featuredImage" ELSE f

\* C3 as claimed: a save of an update leaves every omitted field as stored and
\* sets every field present in the body to the supplied value.
C3_PresentFieldsOverwrite ==
    [][\A r \in InFlight :
          UpdateSave(r) /\ posts' # posts =>
             \A f \in Fields :
                posts'[r.id][PathOf(f)] =
                   IF r.body[f] = Undef THEN posts[r.id][PathOf(f)]
                   ELSE Supplied(f, r.body[f])
      ]_vars

\* What holds of C3: the fields given a truthy value (published: any value) are
\* overwritten, the others are left as stored.
C3_TruthyFieldsOverwrite ==
    [][\A r \in InFlight :
          UpdateSave(r) /\ posts' # posts =>
             \A f \in Fields :
                posts'[r.id][PathOf(f)] =
                   IF Truthy(r.body[f]) \/ (f = "published" /\ r.body[f] # Undef)
                   THEN Supplied(f, r.body[f])
                   ELSE posts[r.id][PathOf(f)]
      ]_vars

\* C4 as claimed: tags or seo given as a string that is not valid JSON makes a
\* create and an update answer 400 with the collection as it was.
NotJson(x) == x.k = "string" /\ ~JSONParse(x.v).ok
HasBadJson(body) == NotJson(body.tags) \/ NotJson(body.seo)
CreatesWithBadJson == {body \in CreateBodies : HasBadJson(body)}
UpdatesWithBadJson == {body \in UpdateBodies : HasBadJson(body)}

C4_BadJsonRejected ==
    [][/\ \A user \in Callers : \A body \in CreatesWithBadJson :
             AddPost(user, body) => Answered("create", 400, 0) /\ posts' = posts
       /\ \A id \in DOMAIN posts : \A user \in Users : \A body \in UpdatesWithBadJson :
             ~NotOwnerNorAdmin(user, posts[id]) /\ UpdatePost(user, id, body) =>
                Answered("update", 400, id) /\ posts' = posts
      ]_vars

\* What holds of C4: text that is not empty and not valid JSON is rejected so.
NonEmptyNotJson(x) == NotJson(x) /\ x.v # ""
C4_NonEmptyBadJsonRejected ==
    [][/\ \A user \in Callers : \A body \in CreatesWithBadJson :
             (NonEmptyNotJson(body.tags) \/ NonEmptyNotJson(body.seo)) /\ AddPost(user, body)
                => Answered("create", 400, 0) /\ posts' = posts
       /\ \A id \in DOMAIN posts : \A user \in Users : \A body \in UpdatesWithBadJson :
             /\ NonEmptyNotJson(body.tags) \/ NonEmptyNotJson(body.seo)
             /\ ~NotOwnerNorAdmin(user, posts[id])
             /\ UpdatePost(user, id, body)
             => Answered("update", 400, id) /\ posts' = posts
      ]_vars

\* C5: a delete of a well-formed id that is not stored is answered 404, and so
\* is every delete of an id received after a delete of it was confirmed.
C5_DeleteOfAbsentIs404 ==
    [][/\ \A id \in PathIds : \A user \in Callers :
             /\ IsValidObjectId(id)
             /\ id \notin DOMAIN posts \/ id \in deletedOk
             /\ DeletePost(user, id)
             => Answered("delete", 404, id) /\ posts' = posts
       /\ \A id \in deletedOk' : id \notin DOMAIN posts'
      ]_vars

C5_Witness ==
    /\ last.op = "delete" /\ last.status = 404
    /\ last.id \in deletedOk

\* C6 as claimed: an update with a well-formed id and no user on the request is
\* answered 401 and leaves the collection as it was.
C6_UnauthenticatedUpdateIs401 ==
    [][\A id \in PathIds : \A body \in UpdateBodies :
          IsValidObjectId(id) /\ UpdatePost(NoUser, id, body) =>
             Answered("update", 401, id) /\ posts' = posts
      ]_vars

\* C7: every stored post has the author it was created with.
C7_AuthorFixed == \A id \in DOMAIN posts : posts[id].author = origAuthor[id]

\* A post created without a user, so owned by the fallback author, has been
\* updated: only an admin passes the ownership check on it.
C7_Witness ==
    \E id \in DOMAIN posts :
        /\ origAuthor[id] = FallbackAuthor
        /\ posts[id].title = FullBody.title

\* C8 as claimed: every stored post has an author, a category, a non-empty
\* title, a non-empty content and a seo that is an object.
NonEmptyString(x) == x.k = "string" /\ x.v # ""
C9_UpdateReturnsItsPost ==
    [][\A r \in InFlight :
          UpdateReread(r) =>
             /\ last'.doc # <<>>
             /\ \A p \in DOMAIN Assignments(r.body) :
                   Assignments(r.body)[p] # Keep =>
                      last'.doc[1][p] = Assignments(r.body)[p]
      ]_vars

====
